---- MODULE Spec2Model ----
(***************************************************************************)
(* State-machine model of plugin::EnsembleHarmonic, the ensemble           *)
(* histogram-matching restraint of brer-md (src/src/cpp/ensemblepotential  *)
(* .cpp and .h).                                                           *)
(*                                                                         *)
(* Numbers.  Simulation times and periods are integer ticks.  Site         *)
(* positions are integer points on the separation axis, so the distance    *)
(* R = sqrt(dot(v - v0, v - v0)) is |v - v0|, and a force is its component *)
(* on that axis.  binWidth_ and sigma_ are 1                               *)
(* (the values of tests/test_histogram.cpp).  Histogram values are fixed   *)
(* point numbers: the value x is stored as round(1000 x) * 144; the factor *)
(* 144 = 12 * 12 makes every division by a sample count and by a window    *)
(* count up to 4 exact, so the divisions of the code are computed without  *)
(* rounding.                                                               *)
(***************************************************************************)
EXTENDS Integers, Sequences, FiniteSets, TLC

(***************************************************************************)
(* Bounds of the model.                                                    *)
(***************************************************************************)
\* number of histogram bins (nbins) of the restraints that only run callbacks
NBins == 3
\* nsamples is drawn from 0..MaxSamples
MaxSamples == 2
\* sample_period is drawn from 0..MaxPeriod
MaxPeriod == 2
\* nwindows is drawn from 0..MaxWindows
MaxWindows == 2
\* no callback comes after time MaxTime
MaxTime == 4

VARIABLES
    \* configuration, fixed by the constructor
    nBins_, minDist_, maxDist_, k_,
    nSamples_, samplePeriod_, nWindows_, windowUpdatePeriod_, experimental_,
    \* sampling state
    currentSample_, nextSampleTime_, distanceSamples_,
    \* window state
    currentWindow_, windowStartTime_, nextWindowUpdateTime_, windows_, histogram_,
    \* the running callback: its position, its argument t, its local R and the
    \* receive buffer temp_window of its reduce call
    pc, t, R, temp_window,
    \* the process: the build (NDEBUG or not) and whether it still runs
    ndebug, status,
    \* observers: the number of reduce calls made, the time of the callback that made
    \* the last window update, and whether callback has been driven at every tick
    reduceCalls, updatedAt, everyStep,
    \* the last calculate call since the last callback: its arguments <<v, v0>>
    \* (empty when there is none) and the force it returned
    calc, force,
    \* callbacks that run concurrently: for each calling thread its position in
    \* callback with its argument t, its local R and its place n in the loop over
    \* the windows; and the owner of each mutex (0 when it is unlocked)
    thread, samples_mutex_, windows_mutex_,
    \* observer of the concurrent callbacks: the values that histogram_ had at
    \* construction and when each of their window updates had recomputed it
    published,
    \* a second replica of the restraint, with the same configuration (empty when
    \* there is none), and the time of the first callback of a run that may start
    \* at any time (-1 before it)
    peer, startedAt,
    \* the other restraints, each a record of its members (empty when there is
    \* none): a plugin::Harmonic, a plugin::Linear, a plugin::BRER and a
    \* plugin::LinearStop, and the Python objects around a restraint builder
    harmonic, linear, brer, linearstop, builder

\* a callback comes at most MaxStep ticks after the previous one
MaxStep == MaxPeriod
\* no callback starts once MaxUpdates window updates have been made
MaxUpdates == MaxWindows + 1

\* The window_update_period values tried with nsamples and sample_period: the
\* consistent one, nsamples * sample_period, the ones next to it, and none at all.
WindowPeriods(nsamples, sample_period) ==
    {p \in {0, nsamples * sample_period - 1, nsamples * sample_period,
            nsamples * sample_period + 1} : p >= 0}

Bins == 0 .. (nBins_ - 1)
\* the site positions of tests/test_histogram.cpp on the axis e1: e1 and 3*e1
Positions == {1, 3}
ZeroHist == [i \in Bins |-> 0]

Abs(x) == IF x < 0 THEN -x ELSE x

\* R = sqrt(dot(rdiff, rdiff)) for rdiff = v - v0, on the separation axis
Distance(v, v0) == Abs(v - v0)

\* exp(-x^2 / (2 sigma^2)) / sqrt(2 pi sigma^2) for sigma = 1, in fixed point:
\* 0.399, 0.242, 0.054, 0.004, then 0.000
GaussTable == <<57456, 34848, 7776, 576>>

Gauss(x) == IF Abs(x) < Len(GaussTable) THEN GaussTable[Abs(x) + 1] ELSE 0

RECURSIVE SumTo(_, _)
\* f[0] + ... + f[n - 1]
SumTo(f, n) == IF n <= 0 THEN 0 ELSE f[n - 1] + SumTo(f, n - 1)

\* BlurToGrid::operator(): bin i (at x = i * binWidth) accumulates, over all the
\* num_samples entries of distances, normalization * exp(numerator * denominator),
\* where normalization = 1 / (num_samples * sqrt(2 pi sigma^2)).  With no sample
\* the inner loop has no iteration and every bin is 0.
BlurToGrid(distances, num_samples) ==
    [i \in Bins |->
        SumTo([j \in 0 .. (num_samples - 1) |-> Gauss(i - distances[j]) \div num_samples],
              num_samples)]

\* the experimental histogram of tests/test_histogram.cpp: a peak of 1.0 at bin 1
SpikeHist == [i \in Bins |-> IF i = 1 THEN 144000 ELSE 0]

\* the experimental histogram of tests/test_bounding_restraint.cpp: 0.1 in every bin
FlatHist == [i \in Bins |-> 14400]

ExperimentalHists == {SpikeHist, FlatHist}

\* the threads that may call callback on one restraint
Threads == {1, 2}

\* a thread that is not inside callback
IdleThread == [pc |-> "idle", t |-> -1, R |-> 0, n |-> 0]

\* a force on the separation axis: spring + hist / (144000 * 100), the harmonic
\* part in units of force and the histogram part in fixed point
ZeroForce == [spring |-> 0, hist |-> 0]

config == <<nBins_, minDist_, maxDist_, k_,
           nSamples_, samplePeriod_, nWindows_, windowUpdatePeriod_, experimental_, ndebug>>
sampling == <<currentSample_, nextSampleTime_, distanceSamples_>>
windowing == <<currentWindow_, windowStartTime_, nextWindowUpdateTime_, windows_, histogram_>>
locks == <<samples_mutex_, windows_mutex_>>
concurrent == <<thread, locks, published>>
apart == <<peer, startedAt, harmonic, linear, brer, linearstop, builder>>
vars == <<config, sampling, windowing, pc, t, R, temp_window, status,
          reduceCalls, updatedAt, everyStep, calc, force, concurrent, apart>>

(***************************************************************************)
(* The environment of the restraint.                                       *)
(***************************************************************************)
\* The sums of the raw histograms of the other ensemble members that a reduce call
\* may add: none (a one-member ensemble, or the dummy of the tests), or one other
\* member that sampled distance 1.
OtherReplicas == {ZeroHist, BlurToGrid([j \in {0} |-> 1], 1)}

\* EnsembleResourceHandle::reduce(send, receive): receive gets the sum of send
\* across the ensemble.
Reduce(send, others) == [i \in Bins |-> send[i] + others[i]]

\* the values an uninitialized double member may hold
Indeterminate == {-1, 0}

(***************************************************************************)
(* The constructor.  It stores its arguments without checking them.        *)
(***************************************************************************)
\* the members that the constructor does not take from its arguments
Constructed ==
    /\ histogram_ = ZeroHist
    /\ currentSample_ = 0
    /\ nextSampleTime_ = samplePeriod_
    /\ distanceSamples_ = [j \in 0 .. (nSamples_ - 1) |-> 0]
    /\ currentWindow_ = 0
    /\ nextWindowUpdateTime_ = windowUpdatePeriod_
    /\ windows_ = << >>
    /\ windowStartTime_ \in Indeterminate
    /\ pc = "idle"
    /\ t = -1
    /\ R = 0
    /\ temp_window = ZeroHist
    /\ ndebug \in BOOLEAN
    /\ status = "running"
    /\ reduceCalls = 0
    /\ updatedAt = -1
    /\ everyStep = TRUE
    /\ calc = << >>
    /\ force = ZeroForce
    /\ thread = [i \in Threads |-> IdleThread]
    /\ samples_mutex_ = 0
    /\ windows_mutex_ = 0
    /\ published = {ZeroHist}

\* an ensemble restraint alone: no second replica and no other restraint
Alone ==
    /\ peer = << >>
    /\ startedAt = -1
    /\ harmonic = << >>
    /\ linear = << >>
    /\ brer = << >>
    /\ linearstop = << >>
    /\ builder = << >>

\* Restraints of any configuration, with the bounds and the force constant of
\* tests/test_histogram.cpp; they are driven through callback only.
Init ==
    /\ nBins_ = NBins
    /\ minDist_ = 0
    /\ maxDist_ = 10
    /\ k_ = 100
    /\ nSamples_ \in 0 .. MaxSamples
    /\ samplePeriod_ \in 0 .. MaxPeriod
    /\ nWindows_ \in 0 .. MaxWindows
    /\ windowUpdatePeriod_ \in WindowPeriods(nSamples_, samplePeriod_)
    /\ experimental_ \in ExperimentalHists
    /\ Constructed
    /\ Alone

\* a sampling block that waits until the scheduled time has passed
SampleOverdue(tt) == tt > nextSampleTime_

(***************************************************************************)
(* callback, first block: store historical data every sample_period.       *)
(***************************************************************************)
\* if (t >= nextSampleTime_)
SampleDue(tt) == tt >= nextSampleTime_

\* nextSampleTime_ += samplePeriod_
AdvanceSampleTime == nextSampleTime_ + samplePeriod_

\* a sample always stored in the first slot
StoreAtFront(r) == [distanceSamples_ EXCEPT ![0] = r]

\* distanceSamples_[currentSample_++] = R, the slot being one of the vector's
StoreSample(r) == [distanceSamples_ EXCEPT ![currentSample_] = r]

\* The times the host may pass to the next callback: not before the previous one,
\* the first one at 0 or later.
NextTimes == {tt \in 0 .. MaxTime : t <= tt /\ tt <= t + MaxStep}

CallbackSample(v, v0, tt) ==
    /\ status = "running"
    /\ pc = "idle"
    /\ currentWindow_ < MaxUpdates
    /\ currentSample_ <= nSamples_
    /\ pc' = "window"
    /\ t' = tt
    /\ R' = Distance(v, v0)
    /\ everyStep' = (everyStep /\ tt = t + 1)
    /\ IF SampleDue(tt)
       THEN IF currentSample_ < nSamples_
            THEN /\ distanceSamples_' = StoreSample(R')
                 /\ currentSample_' = currentSample_ + 1
                 /\ nextSampleTime_' = AdvanceSampleTime
                 /\ status' = status
            ELSE \* a write past the end of distanceSamples_: the process dies, or
                 \* the write lands outside the buffer and the callback goes on
                 \/ /\ status' = "crashed"
                    /\ UNCHANGED sampling
                 \/ /\ distanceSamples_' = distanceSamples_
                    /\ currentSample_' = currentSample_ + 1
                    /\ nextSampleTime_' = AdvanceSampleTime
                    /\ status' = status
       ELSE UNCHANGED <<sampling, status>>
    /\ UNCHANGED <<config, windowing, temp_window, reduceCalls, updatedAt>>

(***************************************************************************)
(* callback, second block: the window update.                              *)
(***************************************************************************)
\* a window update that waits until the boundary has passed
WindowOverdue(tt) == tt > nextWindowUpdateTime_

\* if (t >= nextWindowUpdateTime_)
WindowDue(tt) == tt >= nextWindowUpdateTime_

\* if (windows_.size() == nWindows_)
HistoryFull == Len(windows_) = nWindows_

\* a history that is never trimmed
EvictNothing(ws) == ws

\* a history that drops its newest entry
EvictNewest(ws) == SubSeq(ws, 1, Len(ws) - 1)

\* windows_[0].swap(temp_window); windows_.erase(windows_.begin())
EvictOldest(ws) == Tail(ws)

\* assert(currentSample_ == distanceSamples_.size()), compiled out under NDEBUG
SamplesAssertFails == ~ndebug /\ currentSample_ # nSamples_

\* new_window after blur(distanceSamples_, new_window->vector()); id names the
\* allocation (the value of currentWindow_ when it was made)
NewWindow == [id |-> currentWindow_, data |-> BlurToGrid(distanceSamples_, nSamples_)]

\* a window update that appends nothing
KeepHistory(ws, new_window, reduced) == ws

\* windows_.emplace_back(std::move(new_window))
PushWindow(ws, new_window, reduced) == Append(ws, new_window)

RECURSIVE Accumulate(_, _, _, _)
\* the loop over windows_: h[i] += (window[i] - experimental_[i]) / windows_.size()
Accumulate(h, ws, size, k) ==
    IF k > Len(ws) THEN h
    ELSE Accumulate([i \in Bins |-> h[i] + ((ws[k].data[i] - experimental_[i]) \div size)],
                    ws, size, k + 1)

\* a working histogram accumulated on top of its previous value
DriftingHistogram(ws) == Accumulate(histogram_, ws, Len(ws), 1)

\* histogram_ is zeroed, then accumulated over the windows
RecomputeHistogram(ws) == Accumulate(ZeroHist, ws, Len(ws), 1)

\* a schedule anchored on the time of the update
ReanchorWindowTime(tt) == tt + windowUpdatePeriod_

\* nextWindowUpdateTime_ += windowUpdatePeriod_
AdvanceWindowTime(tt) == nextWindowUpdateTime_ + windowUpdatePeriod_

\* nextSampleTime_ = t + samplePeriod_
ResetSampleTime(tt) == tt + samplePeriod_

\* a cursor left where it is
KeepCursor == currentSample_

\* currentSample_ = 0
ResetCursor == 0

\* the window update from the blur on, on the history `kept` left by the eviction
UpdateWindow(kept) ==
    \E others \in OtherReplicas :
        /\ temp_window' = Reduce(NewWindow.data, others)
        /\ reduceCalls' = reduceCalls + 1
        /\ windows_' = PushWindow(kept, NewWindow, temp_window')
        /\ histogram_' = RecomputeHistogram(windows_')
        /\ nextWindowUpdateTime_' = AdvanceWindowTime(t)
        /\ currentWindow_' = currentWindow_ + 1
        /\ currentSample_' = ResetCursor
        /\ nextSampleTime_' = ResetSampleTime(t)
        /\ updatedAt' = t
        /\ pc' = "idle"
        /\ R' = 0
        /\ UNCHANGED <<distanceSamples_, windowStartTime_, status>>

\* the process stops inside the window update, the history being `kept`
Die(how, kept) ==
    /\ status' = how
    /\ windows_' = kept
    /\ UNCHANGED <<sampling, currentWindow_, windowStartTime_, nextWindowUpdateTime_,
                   histogram_, pc, R, temp_window, reduceCalls, updatedAt>>

CallbackWindow ==
    /\ status = "running"
    /\ pc = "window"
    /\ IF WindowDue(t)
       THEN IF HistoryFull /\ windows_ = << >>
            THEN \* windows_[0] and erase(begin()) on an empty vector: the process
                 \* dies, or goes on with the history as it was
                 \/ Die("crashed", windows_)
                 \/ IF SamplesAssertFails THEN Die("aborted", windows_)
                    ELSE UpdateWindow(windows_)
            ELSE LET kept == IF HistoryFull THEN EvictOldest(windows_) ELSE windows_
                 IN  IF SamplesAssertFails THEN Die("aborted", kept)
                     ELSE UpdateWindow(kept)
       ELSE /\ pc' = "idle"
            /\ R' = 0
            /\ UNCHANGED <<sampling, windowing, temp_window, status, reduceCalls, updatedAt>>
    /\ UNCHANGED <<config, t, everyStep>>

Next ==
    \/ /\ \E v \in Positions, v0 \in Positions, tt \in NextTimes : CallbackSample(v, v0, tt)
       /\ UNCHANGED <<calc, force, concurrent, apart>>
    \/ /\ CallbackWindow
       /\ UNCHANGED <<calc, force, concurrent, apart>>

Spec == Init /\ [][Next]_vars

(***************************************************************************)
(* calculate: the force on the site at v, from the working histogram.      *)
(***************************************************************************)
\* number of bins of the restraints of the tests
TestBins == 10

\* the positions of the site that calculate is called for: the e1 and 3*e1 of the
\* tests and two more, so that with the other site at e1 or 3*e1 R takes the values
\* 0, 2, 3, 5 and 7: below, at and above the bounds
CalcPositions == {1, 3, 6, 8}

\* the pairs <<minDist, maxDist>> of the tests, and one with room between them
DistBounds == {<<0, 10>>, <<5, 5>>, <<3, 5>>}

\* the force constants: none, and that of the tests
ForceConstants == {0, 100}

\* exp(-0.5 * (x / sigma)^2) / (sqrt(2 pi) * sigma^3) for sigma = 1, in
\* hundredths: 0.40, 0.24, 0.05, then 0.00
KernelTable == <<40, 24, 5>>

Kernel(x) == IF Abs(x) < Len(KernelTable) THEN KernelTable[Abs(x) + 1] ELSE 0

\* an f_scal that counts the experimental histogram against an empty history
ExperimentalScalar(r) ==
    SumTo([n \in Bins |-> (histogram_[n] - experimental_[n]) * (n - r) * Kernel(n - r)],
          nBins_)

\* f_scal: the sum over the bins n of histogram_[n] * x / normConst * exp(argExp)
\* with x = n * binWidth_ - R
HistogramScalar(r) ==
    SumTo([n \in Bins |-> histogram_[n] * (n - r) * Kernel(n - r)], nBins_)

\* a spring measured from the lower bound
SpringFromMin(r) == k_ * (minDist_ - r)

\* f = k_ * (maxDist_ - R)
SpringAboveMax(r) == k_ * (maxDist_ - r)

\* f = -k_ * (minDist_ - R)
SpringBelowMin(r) == -k_ * (minDist_ - r)

\* a histogram force of the opposite sign
HistogramPush(r) == k_ * HistogramScalar(r)

\* f = -k_ * f_scal
HistogramForce(r) == -k_ * HistogramScalar(r)

\* the scalar f of calculate, chosen by where R lies
ScalarForce(r) ==
    IF r > maxDist_ THEN [spring |-> SpringAboveMax(r), hist |-> 0]
    ELSE IF r < minDist_ THEN [spring |-> SpringBelowMin(r), hist |-> 0]
    ELSE [spring |-> 0, hist |-> HistogramForce(r)]

\* a direction that ignores which site is which
Undirected(rdiff) == 1

\* rdiff / norm(rdiff) on the separation axis, for rdiff # 0
Direction(rdiff) == rdiff \div Abs(rdiff)

\* output.force = f / norm(rdiff) * rdiff
Project(f, rdiff) ==
    [spring |-> f.spring * Direction(rdiff), hist |-> f.hist * Direction(rdiff)]

\* a calculate without the R != 0 test: the direction of a zero rdiff is undefined
Unguarded(v, v0) == Project(ScalarForce(Distance(v, v0)), 1)

\* EnsembleHarmonic::calculate(v, v0, t): the force of the returned
\* PotentialPointData, which is zero when it is left as constructed
CalculateForce(v, v0) ==
    IF Distance(v, v0) # 0
    THEN Project(ScalarForce(Distance(v, v0)), v - v0)
    ELSE ZeroForce

\* a calculate that also takes a sample
CalculateSampling == 
    /\ distanceSamples_' = [j \in DOMAIN distanceSamples_ |-> 0]
    /\ UNCHANGED <<currentSample_, nextSampleTime_, windowing, temp_window, reduceCalls,
                   updatedAt>>

\* calculate assigns no member and calls nothing of the ensemble resources
CalculateFrame ==
    UNCHANGED <<sampling, windowing, temp_window, reduceCalls, updatedAt>>

\* one call of calculate between two callbacks; its argument t is unused
Calculate(v, v0) ==
    /\ status = "running"
    /\ pc = "idle"
    /\ calc' = <<v, v0>>
    /\ force' = CalculateForce(v, v0)
    /\ CalculateFrame
    /\ UNCHANGED <<config, pc, t, R, status, everyStep, concurrent, apart>>

\* a spring that pushes where it should pull
HarmonicPush(v, v0, R0, k) ==
    IF Distance(v, v0) # 0
    THEN (k * (Distance(v, v0) - R0) * (v - v0)) \div Distance(v, v0)
    ELSE 0

\* Harmonic::calculate(v, v0, t) of a spring of constant k and equilibrium
\* distance R0: output.force = k * (R0 / R - 1.0) * rdiff if R != 0, else as
\* constructed
HarmonicForce(v, v0, R0, k) ==
    IF Distance(v, v0) # 0
    THEN (k * (R0 - Distance(v, v0)) * (v - v0)) \div Distance(v, v0)
    ELSE 0

\* the springs of tests/test_harmonic.cpp (R0 = 1, k = 1), and stiffer and longer
\* ones
HarmonicSprings == {<<1, 1>>, <<1, 100>>, <<5, 100>>}

\* the site positions of tests/test_harmonic.cpp on the axis e1: -2*e1, -e1, the
\* origin, e1 and 2*e1
HarmonicPositions == {-2, -1, 0, 1, 2}

\* The restraints that calculate is studied on: ten bins, a consistent
\* configuration with sample_period 1, and any of the bounds and force constants.
InitCalc ==
    /\ nBins_ = TestBins
    /\ \E b \in DistBounds : minDist_ = b[1] /\ maxDist_ = b[2]
    /\ k_ \in ForceConstants
    /\ nSamples_ \in 1 .. MaxSamples
    /\ samplePeriod_ = 1
    /\ nWindows_ \in 1 .. MaxWindows
    /\ windowUpdatePeriod_ = nSamples_ * samplePeriod_
    /\ experimental_ \in ExperimentalHists
    /\ Constructed
    /\ Alone

\* the force a callback finds returned is consumed before the callback
ForceConsumed ==
    /\ calc' = << >>
    /\ force' = ZeroForce

\* the host calls callback at every step, from time 0 or from the first sample
\* time on
StepTimes == {tt \in NextTimes : tt = t + 1 \/ (t = -1 /\ tt = samplePeriod_)}

NextCalc ==
    \/ /\ \E v \in Positions, v0 \in Positions, tt \in StepTimes : CallbackSample(v, v0, tt)
       /\ ForceConsumed
       /\ UNCHANGED <<concurrent, apart>>
    \/ /\ CallbackWindow
       /\ ForceConsumed
       /\ UNCHANGED <<concurrent, apart>>
    \/ \E v \in CalcPositions, v0 \in Positions : Calculate(v, v0)

SpecCalc == InitCalc /\ [][NextCalc]_vars

(***************************************************************************)
(* callback and calculate called from several threads.  A thread is inside *)
(* a critical section from the step that locks its mutex to the step that  *)
(* unlocks it; t is the latest time that a callback was called with.       *)
(***************************************************************************)
\* a mutex that blocks nobody
AlwaysFree(mutex) == TRUE

\* a mutex that its holder never gives back
NeverFree(mutex) == FALSE

\* std::lock_guard<std::mutex>: the constructor returns once the mutex is unlocked
Free(mutex) == mutex = 0

\* the times a thread may pass to callback: that of the latest call or the next step
ThreadTimes == {tt \in NextTimes : tt <= t + 1}

\* the sites while the threads call: at e1 and 3*e1, as in tests/test_histogram.cpp
SitePairs == {<<1, 3>>}

\* the thread as it goes on to the position `to`
Goto(i, to) == [thread EXCEPT ![i].pc = to]

\* the thread as it returns from callback
Return(i) == [thread EXCEPT ![i] = IdleThread]

\* callback(v, v0, t, resources) is called: R is computed
Enter(i, v, v0, tt) ==
    /\ thread[i].pc = "idle"
    /\ currentWindow_ < MaxUpdates
    /\ thread' = [thread EXCEPT ![i] = [pc |-> "lock_samples", t |-> tt,
                                        R |-> Distance(v, v0), n |-> 0]]
    /\ t' = tt
    /\ UNCHANGED <<sampling, windowing, locks, status, temp_window, reduceCalls, updatedAt,
                   published>>

\* std::lock_guard<std::mutex> lock(samples_mutex_)
LockSamples(i) ==
    /\ thread[i].pc = "lock_samples"
    /\ Free(samples_mutex_)
    /\ samples_mutex_' = i
    /\ thread' = Goto(i, "sample")
    /\ UNCHANGED <<sampling, windowing, windows_mutex_, status, t, temp_window, reduceCalls,
                   updatedAt, published>>

\* the first block, and the end of its scope, which unlocks samples_mutex_
SampleBlock(i) ==
    /\ thread[i].pc = "sample"
    /\ IF SampleDue(thread[i].t)
       THEN IF currentSample_ < nSamples_
            THEN /\ distanceSamples_' = StoreSample(thread[i].R)
                 /\ currentSample_' = currentSample_ + 1
                 /\ nextSampleTime_' = AdvanceSampleTime
                 /\ status' = status
            ELSE \* a write past the end of distanceSamples_, as in CallbackSample
                 \/ /\ status' = "crashed"
                    /\ UNCHANGED sampling
                 \/ /\ distanceSamples_' = distanceSamples_
                    /\ currentSample_' = currentSample_ + 1
                    /\ nextSampleTime_' = AdvanceSampleTime
                    /\ status' = status
       ELSE UNCHANGED <<sampling, status>>
    /\ samples_mutex_' = 0
    /\ thread' = Goto(i, "lock_windows")
    /\ UNCHANGED <<windowing, windows_mutex_, t, temp_window, reduceCalls, updatedAt, published>>

\* std::lock_guard<std::mutex> lock_windows(windows_mutex_)
LockWindows(i) ==
    /\ thread[i].pc = "lock_windows"
    /\ Free(windows_mutex_)
    /\ windows_mutex_' = i
    /\ thread' = Goto(i, "relock_samples")
    /\ UNCHANGED <<sampling, windowing, samples_mutex_, status, t, temp_window, reduceCalls,
                   updatedAt, published>>

\* std::lock_guard<std::mutex> lock_samples(samples_mutex_)
RelockSamples(i) ==
    /\ thread[i].pc = "relock_samples"
    /\ Free(samples_mutex_)
    /\ samples_mutex_' = i
    /\ thread' = Goto(i, "window")
    /\ UNCHANGED <<sampling, windowing, windows_mutex_, status, t, temp_window, reduceCalls,
                   updatedAt, published>>

\* The second block up to the zeroing of histogram_: the eviction, the assert, the
\* blur, the reduce call, the append and the first loop.  When no update is due
\* the block ends and unlocks both mutexes.
WindowBegin(i) ==
    /\ thread[i].pc = "window"
    /\ IF WindowDue(thread[i].t)
       THEN LET kept == IF HistoryFull THEN EvictOldest(windows_) ELSE windows_
            IN  IF SamplesAssertFails
                THEN /\ status' = "aborted"
                     /\ windows_' = kept
                     /\ UNCHANGED <<histogram_, temp_window, reduceCalls, thread, locks>>
                ELSE \E others \in OtherReplicas :
                        /\ temp_window' = Reduce(NewWindow.data, others)
                        /\ reduceCalls' = reduceCalls + 1
                        /\ windows_' = PushWindow(kept, NewWindow, temp_window')
                        /\ histogram_' = ZeroHist
                        /\ thread' = [thread EXCEPT ![i].pc = "accumulate", ![i].n = 1]
                        /\ UNCHANGED <<status, locks>>
       ELSE /\ thread' = Return(i)
            /\ samples_mutex_' = 0
            /\ windows_mutex_' = 0
            /\ UNCHANGED <<windows_, histogram_, temp_window, reduceCalls, status>>
    /\ UNCHANGED <<sampling, currentWindow_, windowStartTime_, nextWindowUpdateTime_, t,
                   updatedAt, published>>

\* one round of the loop over windows_:
\* histogram_.at(i) += (window[i] - experimental_.at(i)) / windows_.size()
AddWindow(h, window, size) ==
    [i \in Bins |-> h[i] + ((window.data[i] - experimental_[i]) \div size)]

AccumulateWindow(i) ==
    /\ thread[i].pc = "accumulate"
    /\ thread[i].n <= Len(windows_)
    /\ histogram_' = AddWindow(histogram_, windows_[thread[i].n], Len(windows_))
    /\ thread' = [thread EXCEPT ![i].n = @ + 1]
    /\ published' = IF thread[i].n = Len(windows_) THEN published \cup {histogram_'}
                    ELSE published
    /\ UNCHANGED <<sampling, currentWindow_, windowStartTime_, nextWindowUpdateTime_,
                   windows_, locks, status, t, temp_window, reduceCalls, updatedAt>>

\* the rest of the second block after the loop, and the end of its scope, which
\* unlocks both mutexes and ends the life of the local temp_window
WindowEnd(i) ==
    /\ thread[i].pc = "accumulate"
    /\ thread[i].n > Len(windows_)
    /\ nextWindowUpdateTime_' = AdvanceWindowTime(thread[i].t)
    /\ currentWindow_' = currentWindow_ + 1
    /\ currentSample_' = ResetCursor
    /\ nextSampleTime_' = ResetSampleTime(thread[i].t)
    /\ updatedAt' = thread[i].t
    /\ samples_mutex_' = 0
    /\ windows_mutex_' = 0
    /\ thread' = Return(i)
    /\ temp_window' = ZeroHist
    /\ UNCHANGED <<distanceSamples_, windowStartTime_, windows_, histogram_, status, t,
                   reduceCalls, published>>

\* one step of a thread inside callback
CallbackThread(i) ==
    /\ status = "running"
    /\ \/ \E s \in SitePairs, tt \in ThreadTimes : Enter(i, s[1], s[2], tt)
       \/ LockSamples(i)
       \/ SampleBlock(i)
       \/ LockWindows(i)
       \/ RelockSamples(i)
       \/ WindowBegin(i)
       \/ AccumulateWindow(i)
       \/ WindowEnd(i)
    /\ ForceConsumed
    /\ UNCHANGED <<config, pc, R, everyStep, apart>>

\* calculate called while callbacks may be running: it takes no mutex
CalculateUnlocked(v, v0) ==
    /\ status = "running"
    /\ calc' = <<v, v0>>
    /\ force' = CalculateForce(v, v0)
    /\ CalculateFrame
    /\ UNCHANGED <<config, pc, t, R, status, everyStep, concurrent, apart>>

\* Restraints with a consistent configuration and sample_period 1, called from
\* several threads.
InitConc ==
    /\ nBins_ = NBins
    /\ minDist_ = 0
    /\ maxDist_ = 10
    /\ k_ = 100
    /\ nSamples_ \in 1 .. MaxSamples
    /\ samplePeriod_ = 1
    /\ nWindows_ \in 1 .. MaxWindows
    /\ windowUpdatePeriod_ = nSamples_ * samplePeriod_
    /\ experimental_ \in ExperimentalHists
    /\ Constructed
    /\ Alone

NextConc ==
    \/ \E i \in Threads : CallbackThread(i)
    \/ \E s \in SitePairs : CalculateUnlocked(s[1], s[2])

SpecConc == InitConc /\ [][NextConc]_vars

\* a thread gets past the constructor of one of its lock guards
Acquire(i) ==
    /\ status = "running"
    /\ \/ LockSamples(i)
       \/ LockWindows(i)
       \/ RelockSamples(i)
    /\ ForceConsumed
    /\ UNCHANGED <<config, pc, R, everyStep, apart>>

\* a thread runs a piece of callback that waits for nothing
Proceed(i) ==
    /\ status = "running"
    /\ \/ SampleBlock(i)
       \/ WindowBegin(i)
       \/ AccumulateWindow(i)
       \/ WindowEnd(i)
    /\ ForceConsumed
    /\ UNCHANGED <<config, pc, R, everyStep, apart>>

\* A fair scheduler: a thread inside callback is run again, and a thread that
\* waits for a mutex which is unlocked again and again gets it in the end.  The
\* host is free never to call.
FairConc ==
    /\ InitConc
    /\ [][NextConc]_vars
    /\ \A i \in Threads : WF_vars(Proceed(i)) /\ SF_vars(Acquire(i))

(***************************************************************************)
(* Two replicas of one restraint, with the same configuration and build,   *)
(* called at the same times.  The first is the restraint of the variables; *)
(* the second is the record peer, on which callback is the same code       *)
(* written as a function of the record.                                    *)
(***************************************************************************)
\* the second replica after the constructor
PeerConstructed ==
    [currentSample_ |-> 0,
     nextSampleTime_ |-> samplePeriod_,
     distanceSamples_ |-> [j \in 0 .. (nSamples_ - 1) |-> 0],
     currentWindow_ |-> 0,
     nextWindowUpdateTime_ |-> windowUpdatePeriod_,
     windows_ |-> << >>,
     status |-> "running",
     reduceCalls |-> 0]

\* the sites of the second replica: always at distance 1, which the first one
\* never samples
PeerSites == {<<1, 2>>}

\* the outcomes of the first block of callback on the replica p
PeerSampled(p, r, tt) ==
    IF tt >= p.nextSampleTime_
    THEN IF p.currentSample_ < nSamples_
         THEN {[p EXCEPT !.distanceSamples_ = [@ EXCEPT ![p.currentSample_] = r],
                         !.currentSample_ = @ + 1,
                         !.nextSampleTime_ = @ + samplePeriod_]}
         ELSE \* a write past the end of distanceSamples_
              {[p EXCEPT !.status = "crashed"],
               [p EXCEPT !.currentSample_ = @ + 1,
                         !.nextSampleTime_ = @ + samplePeriod_]}
    ELSE {p}

\* the replica p after a window update on the history `kept`, or stopped by the
\* assert
PeerWindowed(p, kept, tt) ==
    IF ~ndebug /\ p.currentSample_ # nSamples_
    THEN [p EXCEPT !.status = "aborted", !.windows_ = kept]
    ELSE [p EXCEPT !.windows_ = Append(kept, [id |-> p.currentWindow_,
                                             data |-> BlurToGrid(p.distanceSamples_,
                                                                 nSamples_)]),
                   !.reduceCalls = @ + 1,
                   !.nextWindowUpdateTime_ = @ + windowUpdatePeriod_,
                   !.currentWindow_ = @ + 1,
                   !.currentSample_ = 0,
                   !.nextSampleTime_ = tt + samplePeriod_]

\* the outcomes of the second block of callback on the replica p
PeerUpdated(p, tt) ==
    IF tt >= p.nextWindowUpdateTime_
    THEN IF Len(p.windows_) = nWindows_
         THEN IF p.windows_ = << >>
              THEN \* windows_[0] and erase(begin()) on an empty vector
                   {[p EXCEPT !.status = "crashed"], PeerWindowed(p, p.windows_, tt)}
              ELSE {PeerWindowed(p, Tail(p.windows_), tt)}
         ELSE {PeerWindowed(p, p.windows_, tt)}
    ELSE {p}

\* a replica that has stopped stays as it is
PeerStep(outcomes) == IF peer.status = "running" THEN outcomes ELSE {peer}

\* both replicas are called; the first one runs its first block
PairSample(v, v0, w, w0, tt) ==
    /\ CallbackSample(v, v0, tt)
    /\ peer' \in PeerStep(PeerSampled(peer, Distance(w, w0), tt))

\* both replicas run their second block
PairWindow ==
    /\ CallbackWindow
    /\ peer' \in PeerStep(PeerUpdated(peer, t))

\* the first replica has stopped: the second one is called alone
PeerSample(w, w0, tt) ==
    /\ status # "running"
    /\ peer.status = "running"
    /\ pc = "idle"
    /\ peer.currentWindow_ < MaxUpdates
    /\ peer.currentSample_ <= nSamples_
    /\ pc' = "window"
    /\ t' = tt
    /\ peer' \in PeerSampled(peer, Distance(w, w0), tt)
    /\ UNCHANGED <<config, sampling, windowing, R, temp_window, status, reduceCalls,
                   updatedAt, everyStep>>

PeerWindow ==
    /\ status # "running"
    /\ peer.status = "running"
    /\ pc = "window"
    /\ pc' = "idle"
    /\ peer' \in PeerUpdated(peer, t)
    /\ UNCHANGED <<config, sampling, windowing, t, R, temp_window, status, reduceCalls,
                   updatedAt, everyStep>>

\* Two replicas of a restraint that takes samples, with any window update period
\* and any number of windows.
InitPair ==
    /\ nBins_ = NBins
    /\ minDist_ = 0
    /\ maxDist_ = 10
    /\ k_ = 100
    /\ nSamples_ \in 1 .. MaxSamples
    /\ samplePeriod_ \in 1 .. MaxPeriod
    /\ nWindows_ \in 0 .. MaxWindows
    /\ windowUpdatePeriod_ \in WindowPeriods(nSamples_, samplePeriod_)
    /\ experimental_ = SpikeHist
    /\ Constructed
    /\ peer = PeerConstructed
    /\ startedAt = -1
    /\ harmonic = << >>
    /\ linear = << >>
    /\ brer = << >>
    /\ linearstop = << >>
    /\ builder = << >>

NextPair ==
    /\ \/ \E v \in Positions, v0 \in Positions, s \in PeerSites, tt \in NextTimes :
             PairSample(v, v0, s[1], s[2], tt)
       \/ PairWindow
       \/ \E s \in PeerSites, tt \in NextTimes : PeerSample(s[1], s[2], tt)
       \/ PeerWindow
    /\ UNCHANGED <<calc, force, concurrent, startedAt, harmonic, linear, brer, linearstop, builder>>

SpecPair == InitPair /\ [][NextPair]_vars

(***************************************************************************)
(* The other restraints.  While one of them is studied, the ensemble       *)
(* restraint is one that is built and never called.                        *)
(***************************************************************************)
EnsembleAtRest ==
    /\ nBins_ = NBins
    /\ minDist_ = 0
    /\ maxDist_ = 10
    /\ k_ = 100
    /\ nSamples_ = 1
    /\ samplePeriod_ = 1
    /\ nWindows_ = 1
    /\ windowUpdatePeriod_ = 1
    /\ experimental_ = SpikeHist
    /\ Constructed

\* what no call on another restraint touches
EnsembleUntouched ==
    UNCHANGED <<config, sampling, windowing, pc, R, temp_window, status, reduceCalls,
                updatedAt, everyStep, concurrent, peer, startedAt>>

\* a call of Harmonic::calculate on the spring; it assigns no member
HarmonicCalculate(v, v0) ==
    /\ calc' = <<v, v0>>
    /\ force' = [spring |-> HarmonicForce(v, v0, harmonic.R0, harmonic.k), hist |-> 0]
    /\ EnsembleUntouched
    /\ UNCHANGED <<t, harmonic, linear, brer, linearstop, builder>>

\* Harmonic(R0, k)
InitHarmonic ==
    /\ EnsembleAtRest
    /\ peer = << >>
    /\ startedAt = -1
    /\ \E s \in HarmonicSprings : harmonic = [R0 |-> s[1], k |-> s[2]]
    /\ linear = << >>
    /\ brer = << >>
    /\ linearstop = << >>
    /\ builder = << >>

NextHarmonic ==
    \E v \in HarmonicPositions, v0 \in HarmonicPositions : HarmonicCalculate(v, v0)

SpecHarmonic == InitHarmonic /\ [][NextHarmonic]_vars

\* The Linear restraint.  A force is alpha_ / target_ along the axis, the alphas
\* drawn being multiples of the targets.
LinearTargets == {1, 2, 4}
LinearAlphas == {-4, 0, 4}

\* a restraint that initializes in every callback
AlwaysUninitialized(l) == TRUE

\* if (!initialized_)
Uninitialized(l) == ~l.initialized_

\* the first part of Linear::callback: startTime_ = t and
\* nextSampleTime_ = startTime_ + samplePeriod_, once
LinearInitialized(l, tt) ==
    IF Uninitialized(l)
    THEN [l EXCEPT !.startTime_ = tt,
                   !.nextSampleTime_ = tt + l.samplePeriod_,
                   !.initialized_ = TRUE]
    ELSE l

\* a log whose next line is due one sample period after the latest one
LinearResampled(l, tt) ==
    IF tt >= l.nextSampleTime_
    THEN [l EXCEPT !.currentSample_ = @ + 1,
                   !.nextSampleTime_ = tt + l.samplePeriod_]
    ELSE l

\* the second part of Linear::callback: a log line every sample period
LinearSampled(l, tt) ==
    IF tt >= l.nextSampleTime_
    THEN [l EXCEPT !.currentSample_ = @ + 1,
                   !.nextSampleTime_ = (l.currentSample_ + 2) * l.samplePeriod_
                                           + l.startTime_]
    ELSE l

\* the times of the calls on a restraint of a run that may start at any time
RunTimes == IF t = -1 THEN 0 .. MaxTime ELSE NextTimes

\* the time of the first callback of the run
Started(tt) == startedAt' = IF startedAt = -1 THEN tt ELSE startedAt

LinearCallback(v, v0, tt) ==
    /\ linear.currentSample_ <= MaxTime
    /\ t' = tt
    /\ linear' = LinearSampled(LinearInitialized(linear, tt), tt)
    /\ Started(tt)
    /\ calc' = << >>
    /\ force' = ZeroForce
    /\ UNCHANGED <<config, sampling, windowing, pc, R, temp_window, status, reduceCalls,
                   updatedAt, everyStep, concurrent, peer, harmonic, brer, linearstop, builder>>

\* output.force of Linear::calculate: -(alpha_ / target_ / R) * rdiff above the
\* target, (alpha_ / target_ / R) * rdiff below it, untouched at R = 0 and at
\* R = target_
LinearForce(l, v, v0) ==
    IF Distance(v, v0) # 0 /\ Distance(v, v0) # l.target_
    THEN IF Distance(v, v0) > l.target_
         THEN -(l.alpha_ \div l.target_) * Direction(v - v0)
         ELSE (l.alpha_ \div l.target_) * Direction(v - v0)
    ELSE 0

\* Linear::calculate(v, v0, t): it records the time of the call
LinearCalculate(v, v0, tt) ==
    /\ t' = tt
    /\ linear' = [linear EXCEPT !.time_ = tt]
    /\ calc' = <<v, v0>>
    /\ force' = [spring |-> LinearForce(linear, v, v0), hist |-> 0]
    /\ EnsembleUntouched
    /\ UNCHANGED <<harmonic, brer, linearstop, builder>>

\* Linear(alpha, target, samplePeriod, logging_filename)
InitLinear ==
    /\ EnsembleAtRest
    /\ peer = << >>
    /\ startedAt = -1
    /\ harmonic = << >>
    /\ \E a \in LinearAlphas, g \in LinearTargets, p \in 0 .. MaxPeriod :
          linear = [initialized_ |-> FALSE, time_ |-> 0, alpha_ |-> a, target_ |-> g,
                    samplePeriod_ |-> p, startTime_ |-> 0, nextSampleTime_ |-> 0,
                    currentSample_ |-> 0]
    /\ brer = << >>
    /\ linearstop = << >>
    /\ builder = << >>

NextLinear ==
    \/ \E v \in Positions, v0 \in Positions, tt \in RunTimes : LinearCallback(v, v0, tt)
    \/ \E v \in Positions, v0 \in Positions, tt \in RunTimes : LinearCalculate(v, v0, tt)

SpecLinear == InitLinear /\ [][NextLinear]_vars

\* The BRER restraint.  alpha_, alpha_prev_, alpha_max_, eta_ and tolerance_ are
\* kept in hundredths; the sites, targets and sample counts drawn keep mean_,
\* variance_, g_ and gsqrsum_ whole numbers.  A double is a finite value, an
\* infinity or a NaN.
AlphaUnit == 100
Num(x) == [kind |-> "finite", x |-> x]
Inf == [kind |-> "inf", x |-> 0]
NaN == [kind |-> "nan", x |-> 0]
Doubles == [kind : {"finite"}, x : Int] \cup {Inf, NaN}

\* eta * g for a whole g: infinity times zero is a NaN
Times(a, g) ==
    CASE a.kind = "finite" -> Num(a.x * g)
      [] a.kind = "inf" -> IF g = 0 THEN NaN ELSE Inf
      [] OTHER -> NaN

\* a - b
Minus(a, b) ==
    IF a.kind = "finite" /\ b.kind = "finite" THEN Num(a.x - b.x)
    ELSE IF a.kind = "nan" \/ b.kind = "nan" \/ a.kind = b.kind THEN NaN
    ELSE Inf

\* fabs(a) for the comparisons, which are false on a NaN
Fabs(a) == Abs(a.x)

\* A_ / sqrt(gsqrsum) in hundredths, rounded down; a division by zero gives infinity
Eta(A, gsqrsum) ==
    IF gsqrsum = 0 THEN Inf
    ELSE Num(CHOOSE e \in 0 .. (A * AlphaUnit) :
                /\ e * e * gsqrsum <= (A * AlphaUnit) * (A * AlphaUnit)
                /\ (A * AlphaUnit) * (A * AlphaUnit) < (e + 1) * (e + 1) * gsqrsum)

\* the sites of the pair while BRER is called, the parameters of the runs
BRERSites == {<<1, 1>>, <<3, 1>>, <<5, 1>>}
BRERTargets == {1, 2}
BRERSamples == {1, 2}
BRERTolerances == {80, 200}

\* a restraint that signals without recording that it has converged
StoppedUnmarked(b) == [b EXCEPT !.stops = @ + 1]

\* a callback that never takes the converged branch
AlwaysUnconverged(b) == TRUE

\* if (!converged_)
Unconverged(b) == ~b.converged_

\* a schedule anchored at time 0 whenever the run starts
BRERAnchoredAtZero(b, r, tt) ==
    IF ~b.initialized_
    THEN [b EXCEPT !.nextSampleTime_ = b.samplePeriod_,
                   !.windowStartTime_ = 0,
                   !.nextUpdateTime_ = b.tau_,
                   !.mean_ = r,
                   !.tolerance_ = b.tolerance_ * b.A_,
                   !.parameter_file_ = TRUE,
                   !.initialized_ = TRUE]
    ELSE b

\* if (!initialized_) { ... }: the schedule is anchored at the first callback, mean_
\* is the first distance, the tolerance is scaled by A_ and the file is opened
BRERInitialized(b, r, tt) ==
    IF ~b.initialized_
    THEN [b EXCEPT !.nextSampleTime_ = tt + b.samplePeriod_,
                   !.windowStartTime_ = tt,
                   !.nextUpdateTime_ = tt + b.tau_,
                   !.mean_ = r,
                   !.tolerance_ = b.tolerance_ * b.A_,
                   !.parameter_file_ = TRUE,
                   !.initialized_ = TRUE]
    ELSE b

\* if (t >= nextSampleTime_) { ... }: the running mean and variance
BRERSampled(b, r, tt) ==
    IF tt >= b.nextSampleTime_
    THEN LET j == b.currentSample_ + 1
             difference == r - b.mean_
         IN  [b EXCEPT !.variance_ = b.variance_ + (((j - 1) * difference * difference) \div j),
                       !.mean_ = b.mean_ + (difference \div j),
                       !.currentSample_ = j,
                       !.nextSampleTime_ = (j + 1) * b.samplePeriod_ + b.windowStartTime_]
    ELSE b

\* fabs(alpha_ - alpha_prev_) < tolerance_
WithinTolerance(b) ==
    /\ Minus(b.alpha_, b.alpha_prev_).kind = "finite"
    /\ Fabs(Minus(b.alpha_, b.alpha_prev_)) < b.tolerance_

\* converged_ = true; the file is closed and released; resources.getHandle().stop()
Stopped(b) ==
    [b EXCEPT !.converged_ = TRUE, !.parameter_file_ = FALSE, !.stops = @ + 1]

\* if (t >= nextUpdateTime_) { ... } after the assert: the new alpha_, the reset of
\* the window, and the test of convergence
BRERUpdated(b, r, tt) ==
    LET g == ((b.target_ - b.mean_) * b.variance_) \div b.target_
        gsqrsum == b.gsqrsum_ + g * g
        eta == Eta(b.A_, gsqrsum)
        alpha == Minus(b.alpha_, Times(eta, g))
        u == [b EXCEPT !.g_ = g,
                       !.gsqrsum_ = gsqrsum,
                       !.eta_ = eta,
                       !.alpha_prev_ = b.alpha_,
                       !.alpha_ = alpha,
                       !.alpha_max_ = IF alpha.kind # "nan" /\ Fabs(alpha) > b.alpha_max_
                                      THEN Fabs(alpha) ELSE b.alpha_max_,
                       !.mean_ = r,
                       !.variance_ = 0,
                       !.windowStartTime_ = tt,
                       !.nextUpdateTime_ = b.nSamples_ * b.samplePeriod_ + tt,
                       !.currentSample_ = 0,
                       !.nextSampleTime_ = tt + b.samplePeriod_]
    IN  IF WithinTolerance(u) THEN Stopped(u) ELSE u

\* BRER::callback(v, v0, t, resources)
BRERCallback(v, v0, tt) ==
    /\ status = "running"
    /\ t' = tt
    /\ IF Unconverged(brer)
       THEN LET r == Distance(v, v0)
                sampled == BRERSampled(BRERInitialized(brer, r, tt), r, tt)
            IN  IF tt >= sampled.nextUpdateTime_
                THEN IF ~ndebug /\ sampled.currentSample_ # sampled.nSamples_
                     THEN \* assert(currentSample_ == nSamples_)
                          /\ brer' = sampled
                          /\ status' = "aborted"
                     ELSE /\ brer' = BRERUpdated(sampled, r, tt)
                          /\ status' = status
                ELSE /\ brer' = sampled
                     /\ status' = status
       ELSE \* do nothing after convergence but wait for the simulation to end
            /\ brer' = brer
            /\ status' = status
    /\ Started(tt)
    /\ UNCHANGED <<config, sampling, windowing, pc, R, temp_window, reduceCalls, updatedAt,
                   everyStep, calc, force, concurrent, peer, harmonic, linear, linearstop,
                   builder>>

\* BRER(alpha, alpha_prev, alpha_max, mean, variance, A, tau, g, gsqrsum, eta,
\* converged, tolerance, target, nSamples, parameter_filename): a fresh run or one
\* that goes on from the gsqrsum of an earlier one; samplePeriod_ = tau / nSamples
InitBRER ==
    /\ EnsembleAtRest
    /\ peer = << >>
    /\ startedAt = -1
    /\ harmonic = << >>
    /\ linear = << >>
    /\ linearstop = << >>
    /\ builder = << >>
    /\ \E n \in BRERSamples, p \in 1 .. MaxPeriod, g \in BRERTargets,
          tol \in BRERTolerances, q \in {0, 1}, c \in BOOLEAN :
          brer = [initialized_ |-> FALSE, alpha_ |-> Num(0), alpha_prev_ |-> Num(0),
                  alpha_max_ |-> 0, mean_ |-> 0, variance_ |-> 0, A_ |-> 1,
                  tau_ |-> n * p, g_ |-> 0, gsqrsum_ |-> q, eta_ |-> Num(0),
                  converged_ |-> c, tolerance_ |-> tol, target_ |-> g, nSamples_ |-> n,
                  samplePeriod_ |-> p, currentSample_ |-> 0, nextSampleTime_ |-> 0,
                  windowStartTime_ |-> 0, nextUpdateTime_ |-> 0,
                  parameter_file_ |-> FALSE, stops |-> 0]

NextBRER == \E s \in BRERSites, tt \in RunTimes : BRERCallback(s[1], s[2], tt)

SpecBRER == InitBRER /\ [][NextBRER]_vars

\* the host calls callback at every tick from the first call on; samplePeriod_ is
\* a whole number of ticks
TickTimes == {tt \in RunTimes : t = -1 \/ tt = t + 1}

NextBRERTicks == \E s \in BRERSites, tt \in TickTimes : BRERCallback(s[1], s[2], tt)

SpecBRERTicks == InitBRER /\ [][NextBRERTicks]_vars

\* The LinearStop restraint.  R is the distance that the latest callback computed,
\* stops the number of calls of resources.getHandle().stop() and stoppedAt the
\* time of the callback that made the latest of them.
StopSites == {<<1, 1>>, <<3, 1>>, <<5, 1>>}
StopTargets == {2, 4}
StopTolerances == {0, 1, 3}

\* bool converged = std::abs(R - target_) < tolerance_
InBand(l, r) == Abs(r - l.target_) < l.tolerance_

\* if (!initialized_) { ... }
LinearStopInitialized(l, tt) ==
    IF ~l.initialized_
    THEN [l EXCEPT !.startTime_ = tt,
                   !.nextSampleTime_ = tt + l.samplePeriod_,
                   !.logging_file_ = TRUE,
                   !.initialized_ = TRUE]
    ELSE l

\* if (!converged && (t >= nextSampleTime_)) { ... }
LinearStopSampled(l, r, tt) ==
    IF ~InBand(l, r) /\ tt >= l.nextSampleTime_
    THEN [l EXCEPT !.currentSample_ = @ + 1,
                   !.nextSampleTime_ = (l.currentSample_ + 2) * l.samplePeriod_
                                           + l.startTime_]
    ELSE l

\* a restraint that forgets that it has signalled
NeverStopCalled(l) == TRUE

\* if (!stop_called_)
StopNotCalled(l) == ~l.stop_called_

\* if (converged) { if (!stop_called_) { ... } }: the flag is set, the log is closed
\* and released, and stop() is called
LinearStopSignalled(l, r) ==
    IF InBand(l, r) /\ StopNotCalled(l)
    THEN [l EXCEPT !.stop_called_ = TRUE, !.logging_file_ = FALSE, !.stops = @ + 1]
    ELSE l

\* LinearStop::callback(v, v0, t, resources)
LinearStopCallback(v, v0, tt) ==
    /\ linearstop.currentSample_ <= MaxTime
    /\ t' = tt
    /\ LET r == Distance(v, v0)
           sampled == LinearStopSampled(LinearStopInitialized(linearstop, tt), r, tt)
       IN  linearstop' = [LinearStopSignalled(sampled, r) EXCEPT
                             !.R = r,
                             !.stoppedAt = IF LinearStopSignalled(sampled, r).stops
                                               # sampled.stops
                                            THEN tt ELSE @]
    /\ Started(tt)
    /\ calc' = << >>
    /\ force' = ZeroForce
    /\ UNCHANGED <<config, sampling, windowing, pc, R, temp_window, status, reduceCalls,
                   updatedAt, everyStep, concurrent, peer, harmonic, linear, brer, builder>>

\* output.force of LinearStop::calculate
LinearStopForce(l, v, v0) ==
    IF Distance(v, v0) # 0 /\ Distance(v, v0) # l.target_
    THEN IF Distance(v, v0) > l.target_
         THEN -(l.alpha_ \div l.target_) * Direction(v - v0)
         ELSE (l.alpha_ \div l.target_) * Direction(v - v0)
    ELSE 0

\* LinearStop::calculate(v, v0, t)
LinearStopCalculate(v, v0, tt) ==
    /\ t' = tt
    /\ linearstop' = [linearstop EXCEPT !.time_ = tt]
    /\ calc' = <<v, v0>>
    /\ force' = [spring |-> LinearStopForce(linearstop, v, v0), hist |-> 0]
    /\ EnsembleUntouched
    /\ UNCHANGED <<harmonic, linear, brer, builder>>

\* LinearStop(alpha, target, tolerance, samplePeriod, logging_filename)
InitLinearStop ==
    /\ EnsembleAtRest
    /\ peer = << >>
    /\ startedAt = -1
    /\ harmonic = << >>
    /\ linear = << >>
    /\ brer = << >>
    /\ builder = << >>
    /\ \E g \in StopTargets, tol \in StopTolerances, p \in 0 .. MaxPeriod :
          linearstop = [initialized_ |-> FALSE, time_ |-> 0, alpha_ |-> 4,
                        tolerance_ |-> tol, target_ |-> g, samplePeriod_ |-> p,
                        startTime_ |-> 0, nextSampleTime_ |-> 0, currentSample_ |-> 0,
                        logging_file_ |-> FALSE, stop_called_ |-> FALSE,
                        R |-> 0, stops |-> 0, stoppedAt |-> -1]

NextLinearStop ==
    \/ \E s \in StopSites, tt \in RunTimes : LinearStopCallback(s[1], s[2], tt)
    \/ \E s \in StopSites, tt \in RunTimes : LinearStopCalculate(s[1], s[2], tt)

SpecLinearStop == InitLinearStop /\ [][NextLinearStop]_vars

\* The restraint builders of the Python module.  The Python objects a builder may
\* be given as subscriber: one whose attribute 'potential' is a list, one without
\* the attribute, and one whose attribute is a tuple (py::list then holds a copy
\* of it).  0 is the py::object that holds nothing.
Subscribers == {1, 2, 3}
PotentialAttr(sub) ==
    CASE sub = 1 -> "list"
      [] sub = 2 -> "absent"
      [] OTHER -> "tuple"

\* no build is called once MaxBuilds potentials have been created
MaxBuilds == MaxSamples + 1

\* a build that looks at the context after it has attached the potential
BuiltUnchecked(b) ==
    IF b.subscriber_ = 0 THEN [b EXCEPT !.result = "returned"]
    ELSE IF PotentialAttr(b.subscriber_) = "absent"
    THEN [b EXCEPT !.result = "ProtocolError"]
    ELSE [b EXCEPT !.created = @ + 1,
                   !.potential[b.subscriber_] =
                       IF PotentialAttr(b.subscriber_) = "list"
                       THEN Append(@, [restraint |-> b.restraint, id |-> b.created + 1])
                       ELSE @,
                   !.result = IF b.context_ THEN "built" ELSE "ProtocolError"]

\* build(graph): the value of the builder and of the subscribers' attributes
\* after the call, result being the way the call ended
Built(b) ==
    IF b.subscriber_ = 0 THEN [b EXCEPT !.result = "returned"]
    ELSE IF PotentialAttr(b.subscriber_) = "absent"
    THEN [b EXCEPT !.result = "ProtocolError"]
    ELSE IF ~b.context_
    THEN [b EXCEPT !.result = "ProtocolError"]
    ELSE [b EXCEPT !.created = @ + 1,
                   !.potential[b.subscriber_] =
                       IF PotentialAttr(b.subscriber_) = "list"
                       THEN Append(@, [restraint |-> b.restraint, id |-> b.created + 1])
                       ELSE @,
                   !.result = "built"]

BuilderUntouched ==
    UNCHANGED <<config, sampling, windowing, pc, t, R, temp_window, reduceCalls, updatedAt,
                everyStep, calc, force, concurrent, peer, startedAt, harmonic, linear, brer,
                linearstop>>

Build ==
    /\ status = "running"
    /\ builder.created < MaxBuilds
    /\ builder' = Built(builder)
    /\ status' = status
    /\ BuilderUntouched

\* addSubscriber(subscriber): assert(py::hasattr(subscriber, "potential")), compiled
\* out under NDEBUG, then subscriber_ = subscriber
AddSubscriber(sub) ==
    /\ status = "running"
    /\ IF ~ndebug /\ PotentialAttr(sub) = "absent"
       THEN /\ status' = "aborted"
            /\ builder' = builder
       ELSE /\ status' = status
            /\ builder' = [builder EXCEPT !.subscriber_ = sub]
    /\ BuilderUntouched

\* LinearRestraintBuilder(element) or BRERRestraintBuilder(element): context_ is
\* element.workspec._context, which has an 'ensemble_update' or has none
InitBuilder ==
    /\ EnsembleAtRest
    /\ peer = << >>
    /\ startedAt = -1
    /\ harmonic = << >>
    /\ linear = << >>
    /\ brer = << >>
    /\ linearstop = << >>
    /\ \E kind \in {"Linear", "BRER"}, update \in BOOLEAN :
          builder = [restraint |-> kind, subscriber_ |-> 0, context_ |-> update,
                     potential |-> [sub \in Subscribers |-> << >>],
                     created |-> 0, result |-> "none"]

NextBuilder ==
    \/ Build
    \/ \E sub \in Subscribers : AddSubscriber(sub)

SpecBuilder == InitBuilder /\ [][NextBuilder]_vars

\* Runs that the host starts at any time: the restraints of section 6 of the
\* specification, their first callback at any time from 0 to MaxTime.
InitStart ==
    /\ nBins_ = NBins
    /\ minDist_ = 0
    /\ maxDist_ = 10
    /\ k_ = 100
    /\ nSamples_ \in 1 .. MaxSamples
    /\ samplePeriod_ \in 1 .. MaxPeriod
    /\ nWindows_ \in 1 .. MaxWindows
    /\ windowUpdatePeriod_ = nSamples_ * samplePeriod_
    /\ experimental_ = SpikeHist
    /\ Constructed
    /\ Alone

NextStart ==
    \/ /\ \E v \in Positions, v0 \in Positions, tt \in RunTimes : CallbackSample(v, v0, tt)
       /\ Started(t')
       /\ UNCHANGED <<calc, force, concurrent, peer, harmonic, linear, brer, linearstop, builder>>
    \/ /\ CallbackWindow
       /\ UNCHANGED <<calc, force, concurrent, apart>>

SpecStart == InitStart /\ [][NextStart]_vars

(***************************************************************************)
(* Types.                                                                  *)
(***************************************************************************)
TypeOK ==
    /\ pc \in {"idle", "window"}
    /\ status \in {"running", "aborted", "crashed"}
    /\ t \in -1 .. MaxTime
    /\ R \in Nat
    /\ currentSample_ \in Nat
    /\ histogram_ \in [Bins -> Int]
    /\ \A k \in 1 .. Len(windows_) : windows_[k].data \in [Bins -> Nat]

(***************************************************************************)
(* Properties of the window history.                                       *)
(***************************************************************************)
\* C1: with nWindows >= 1, the window history never holds more than nWindows
\* entries, whatever callbacks have run.
C1_HistoryBounded == nWindows_ >= 1 => Len(windows_) <= nWindows_

\* a full history that has already evicted an entry
C1_Witness ==
    /\ status = "running"
    /\ nWindows_ >= 1
    /\ Len(windows_) = nWindows_
    /\ currentWindow_ > nWindows_

\* the entries of the history are the last Len(windows_) windows made, oldest first
NewestInOrder ==
    \A k \in 1 .. Len(windows_) : windows_[k].id = currentWindow_ - Len(windows_) + k - 1

\* a window update on a full history removes the first entry, keeps the others in
\* their order and puts the new window last
FifoStep ==
    (/\ pc = "window"
     /\ nWindows_ >= 1
     /\ Len(windows_) = nWindows_
     /\ currentWindow_' = currentWindow_ + 1)
    => /\ Len(windows_') = nWindows_
       /\ \A k \in 1 .. (nWindows_ - 1) : windows_'[k] = windows_[k + 1]
       /\ windows_'[nWindows_] = NewWindow

\* C2: eviction is FIFO: an update on a full history removes exactly the oldest
\* entry, keeps the order of the others and appends the new one last, so after
\* nWindows + 1 windows the history holds windows 2 .. nWindows + 1 in that order.
C2_Fifo == [](nWindows_ >= 1 => NewestInOrder) /\ [][FifoStep]_vars

\* nWindows + 1 windows made: the first is gone, the others are there in order
C2_Witness ==
    /\ status = "running"
    /\ nWindows_ >= 2
    /\ currentWindow_ = nWindows_ + 1
    /\ Len(windows_) = nWindows_
    /\ \A k \in 1 .. nWindows_ : windows_[k].id = k

\* C3: the histogram appended at a window update is the reduced histogram that the
\* reduce call returned, not the raw local one (stated for the configurations with
\* positive counts and periods, where the last entry of the history is the window
\* of the last reduce call).
C3_ReducedAppended ==
    (/\ status = "running"
     /\ nSamples_ >= 1 /\ samplePeriod_ >= 1 /\ nWindows_ >= 1 /\ windowUpdatePeriod_ >= 1
     /\ currentWindow_ > 0)
    => windows_[Len(windows_)].data = temp_window

RECURSIVE SumDiff(_, _, _)
\* the sum over the first k windows of ws of (window[i] - experimental_[i])
SumDiff(ws, i, k) ==
    IF k = 0 THEN 0 ELSE (ws[k].data[i] - experimental_[i]) + SumDiff(ws, i, k - 1)

\* the mean over the windows of ws of (window[i] - experimental_[i]), 0 for none
MeanDiff(ws, i) == IF Len(ws) = 0 THEN 0 ELSE SumDiff(ws, i, Len(ws)) \div Len(ws)

\* C4: the working histogram is, bin by bin, the mean over the entries now in the
\* window history of (entry - experimental), and all zeros while the history is
\* empty; an evicted window contributes nothing.
C4_WorkingIsMean ==
    status = "running" => \A i \in Bins : histogram_[i] = MeanDiff(windows_, i)

\* a window has been evicted and the ones kept differ from each other
C4_Witness ==
    /\ status = "running"
    /\ nWindows_ >= 2
    /\ Len(windows_) = nWindows_
    /\ currentWindow_ > nWindows_
    /\ windows_[1].data # windows_[2].data
    /\ histogram_ # ZeroHist

(***************************************************************************)
(* Properties of the schedule and of the sample buffer.                    *)
(***************************************************************************)
\* a configuration of section 6 of the specification: positive counts and periods,
\* windowUpdatePeriod = nSamples * samplePeriod
ValidConfig ==
    /\ nSamples_ >= 1
    /\ samplePeriod_ >= 1
    /\ nWindows_ >= 1
    /\ windowUpdatePeriod_ = nSamples_ * samplePeriod_

\* the step of a callback that makes a window update
WindowUpdateStep == pc = "window" /\ currentWindow_' = currentWindow_ + 1

\* the step of a callback that runs its sampling block
SamplingStep == pc = "idle" /\ pc' = "window"

C6_Reanchored ==
    [][(ValidConfig /\ WindowUpdateStep)
       => nextWindowUpdateTime_' = t + windowUpdatePeriod_]_vars

\* C6: after a window update the next update is scheduled at the previously
\* scheduled time plus windowUpdatePeriod, which is the accumulated multiple
\* (currentWindow + 1) * windowUpdatePeriod of the period, whatever the time t of
\* the callback was.
C6_Accumulated ==
    /\ [][WindowUpdateStep
          => nextWindowUpdateTime_' = nextWindowUpdateTime_ + windowUpdatePeriod_]_vars
    /\ [](nextWindowUpdateTime_ = (currentWindow_ + 1) * windowUpdatePeriod_)

\* a window update made later than scheduled, in a valid configuration
C6_Witness ==
    /\ status = "running"
    /\ ValidConfig
    /\ updatedAt >= 0
    /\ nextWindowUpdateTime_ < updatedAt + windowUpdatePeriod_

\* C7: the sample cursor stays within [0, nSamples] for every configuration the
\* constructor accepts and every non-decreasing sequence of callback times
\* (stated for the configurations with positive counts and periods).
C7_CursorInBuffer ==
    (nSamples_ >= 1 /\ samplePeriod_ >= 1 /\ nWindows_ >= 1 /\ windowUpdatePeriod_ >= 1)
    => currentSample_ \in 0 .. nSamples_

\* C8: the sampling block of one callback records at most one sample: when t >=
\* nextSampleTime it stores the distance at the cursor slot, moves the cursor by
\* one and nextSampleTime by samplePeriod; when t < nextSampleTime it changes none
\* of the cursor, nextSampleTime and the buffer.
C8_OneSample ==
    [][SamplingStep
       => /\ currentSample_' - currentSample_ \in {0, 1}
          /\ t' < nextSampleTime_ => UNCHANGED sampling
          /\ (t' >= nextSampleTime_ /\ currentSample_ < nSamples_)
             => /\ distanceSamples_' = [distanceSamples_ EXCEPT ![currentSample_] = R']
                /\ currentSample_' = currentSample_ + 1
                /\ nextSampleTime_' = nextSampleTime_ + samplePeriod_]_vars

\* the sampling block has just stored distance 2 in the second slot, the first
\* slot holding an earlier sample of distance 0
C8_Witness ==
    /\ status = "running"
    /\ pc = "window"
    /\ nSamples_ = 2
    /\ currentSample_ = 2
    /\ R = 2
    /\ distanceSamples_[1] = 2
    /\ distanceSamples_[0] = 0
    /\ nextSampleTime_ = 3 * samplePeriod_

\* C9 as claimed: a window update in a callback at time t leaves the cursor at 0
\* and windowStartTime at t (stated for the valid configurations).
C9_Drained ==
    [][(ValidConfig /\ WindowUpdateStep)
       => (currentSample_' = 0 /\ windowStartTime_' = t)]_vars

\* C9: a window update in a callback at time t leaves the cursor at 0 and
\* nextSampleTime at t + samplePeriod; windowStartTime is never assigned.
C9_Reset ==
    /\ [][WindowUpdateStep
          => (currentSample_' = 0 /\ nextSampleTime_' = t + samplePeriod_)]_vars
    /\ [][windowStartTime_' = windowStartTime_]_vars

\* a callback at time t has just completed a window of two samples, and
\* windowStartTime is not t
C9_Witness ==
    /\ status = "running"
    /\ ValidConfig
    /\ nSamples_ = 2
    /\ pc = "idle"
    /\ updatedAt = t
    /\ currentSample_ = 0
    /\ nextSampleTime_ = t + samplePeriod_
    /\ windowStartTime_ # t

\* C10: a callback that reaches a window boundary with a partially filled buffer
\* stops the process, calls no reduce, appends no window and leaves the working
\* histogram alone (stated for the valid configurations).
C10_PartialFatal ==
    [][(/\ pc = "window"
        /\ status = "running"
        /\ ValidConfig
        /\ t >= nextWindowUpdateTime_
        /\ currentSample_ # nSamples_)
       => /\ status' = "aborted"
          /\ reduceCalls' = reduceCalls
          /\ currentWindow_' = currentWindow_
          /\ Len(windows_') <= Len(windows_)
          /\ histogram_' = histogram_]_vars

(***************************************************************************)
(* Properties of the constructor.                                          *)
(***************************************************************************)
\* C11: a restraint whose configuration is invalid (non-positive nSamples,
\* nWindows, samplePeriod or windowUpdatePeriod, or windowUpdatePeriod different
\* from nSamples * samplePeriod) is rejected at construction, so every instance
\* that a callback has run on has a valid configuration.
C11_InvalidRejected == t >= 0 => ValidConfig

(***************************************************************************)
(* Properties of calculate.                                                *)
(***************************************************************************)
\* a step that is a call of calculate
CalculateStep == calc' # << >>

\* C12: a call of calculate changes nothing of the restraint (configuration,
\* sample buffer, cursor, timers, window history, working histogram) and makes no
\* reduce call.
C12_CalculateReadOnly ==
    [][CalculateStep => UNCHANGED <<config, sampling, windowing, reduceCalls>>]_vars

\* calculate has returned a force on a restraint that holds samples and windows
C12_Witness ==
    /\ calc # << >>
    /\ force # ZeroForce
    /\ currentSample_ > 0
    /\ distanceSamples_[0] > 0
    /\ Len(windows_) > 0
    /\ reduceCalls > 0

\* the distance R of the last calculate call
CalcR == Distance(calc[1], calc[2])

\* C13: before any window has completed (empty history, working histogram all
\* zeros), calculate returns exactly the zero force for every pair of positions
\* with minDist <= R <= maxDist.
C13_ZeroBeforeWindow ==
    (/\ calc # << >>
     /\ currentWindow_ = 0
     /\ minDist_ <= CalcR
     /\ CalcR <= maxDist_)
    => force = ZeroForce

\* calculate has run at a nonzero distance within the bounds, with a force constant
\* and a nonzero experimental histogram around R, before the first window
C13_Witness ==
    /\ calc # << >>
    /\ currentWindow_ = 0
    /\ Len(windows_) = 0
    /\ histogram_ = ZeroHist
    /\ k_ > 0
    /\ CalcR > 0
    /\ minDist_ <= CalcR
    /\ CalcR <= maxDist_
    /\ experimental_[CalcR - 1] > 0
    /\ force = ZeroForce

\* C14: when the two positions coincide (R = 0), calculate returns the zero force
\* in every reachable state, whatever the working histogram, k, minDist and maxDist.
C14_ZeroAtCoincidence ==
    (calc # << >> /\ calc[1] = calc[2]) => force = ZeroForce

\* calculate has run on coinciding positions below a positive minDist, with a force
\* constant and a working histogram that is not zero
C14_Witness ==
    /\ calc # << >>
    /\ calc[1] = calc[2]
    /\ k_ > 0
    /\ minDist_ > 0
    /\ histogram_ # ZeroHist
    /\ force = ZeroForce

\* C15: for R > maxDist and k > 0, the force returned for the site at v points
\* from v toward v0 and has magnitude k * (R - maxDist).
C15_AttractiveAboveMax ==
    (/\ calc # << >>
     /\ k_ > 0
     /\ CalcR > maxDist_)
    => /\ force.hist = 0
       /\ force.spring * (calc[2] - calc[1]) > 0
       /\ Abs(force.spring) = k_ * (CalcR - maxDist_)

\* maxDist = 5, R = 7, k = 100: a force of magnitude 200 toward the other site
C15_Witness ==
    /\ calc # << >>
    /\ k_ = 100
    /\ minDist_ < maxDist_
    /\ maxDist_ = 5
    /\ CalcR = 7
    /\ calc[1] > calc[2]
    /\ force = [spring |-> -200, hist |-> 0]

\* C16: for 0 < R < minDist and k > 0, the force returned for the site at v points
\* from v0 toward v, away from the other site, and has magnitude k * (minDist - R).
C16_RepulsiveBelowMin ==
    (/\ calc # << >>
     /\ k_ > 0
     /\ 0 < CalcR
     /\ CalcR < minDist_)
    => /\ force.hist = 0
       /\ force.spring * (calc[1] - calc[2]) > 0
       /\ Abs(force.spring) = k_ * (minDist_ - CalcR)

\* the opposite of a force
Negated(f) == [spring |-> -f.spring, hist |-> -f.hist]

\* C17: the pair force is antisymmetric under exchange of the sites: in any state
\* of the restraint and for all positions a and b, the force that calculate(a, b)
\* has returned is the opposite of that of calculate(b, a) in the same state, for
\* EnsembleHarmonic and for Harmonic.
C17_Antisymmetric ==
    calc # << >> =>
        /\ force = Negated(CalculateForce(calc[2], calc[1]))
        /\ \A s \in HarmonicSprings :
              HarmonicForce(calc[1], calc[2], s[1], s[2])
                  = -HarmonicForce(calc[2], calc[1], s[1], s[2])

\* calculate has returned a nonzero force from a nonzero working histogram, the
\* opposite of what it returns for the exchanged sites, where the harmonic spring of
\* the tests also gives a nonzero force
C17_Witness ==
    /\ calc # << >>
    /\ currentWindow_ > 0
    /\ minDist_ < CalcR
    /\ CalcR < maxDist_
    /\ force.hist # 0
    /\ force = Negated(CalculateForce(calc[2], calc[1]))
    /\ HarmonicForce(calc[1], calc[2], 1, 1) # 0

\* the restraint of tests/test_histogram.cpp after its callback: ten bins, bounds 0
\* and 10, one sample a window, one window, k = 100, the experimental spike at bin
\* 1, and one window made at t = 1 (0.001, one sample period) of the sample R = 2
HistogramTestState ==
    /\ nBins_ = TestBins
    /\ minDist_ = 0
    /\ maxDist_ = 10
    /\ nSamples_ = 1
    /\ samplePeriod_ = 1
    /\ nWindows_ = 1
    /\ k_ = 100
    /\ experimental_ = SpikeHist
    /\ status = "running"
    /\ pc = "idle"
    /\ t = 1
    /\ currentWindow_ = 1
    /\ windows_ = <<[id |-> 0, data |-> BlurToGrid([j \in {0} |-> 2], 1)]>>

\* C18: in the scenario of tests/test_histogram.cpp, after the one callback that
\* records R = 2 at t = 0.001, calculate at the same two positions returns a force
\* that points from the site at v toward the other site, in either order of the
\* sites.
C18_PullsTogether ==
    (/\ HistogramTestState
     /\ calc \in {<<1, 3>>, <<3, 1>>})
    => /\ force.spring = 0
       /\ force.hist * (calc[2] - calc[1]) > 0

\* calculate(e1, 3*e1) has returned a force along +e1 in that scenario
C18_Witness ==
    /\ HistogramTestState
    /\ calc = <<1, 3>>
    /\ force.hist > 0

(***************************************************************************)
(* Properties of concurrent calls.                                         *)
(***************************************************************************)
\* C19: when calculate runs while callback runs on another thread, the working
\* histogram it uses is the result of a completed window update or the initial
\* zeros: never one that is zeroed or accumulated over only some of the windows.
C19_NoTornHistogram ==
    [][CalculateStep => histogram_ \in published]_vars

\* the thread has zeroed histogram_ and not yet added every window to it
MidRecompute(i) == thread[i].pc = "accumulate" /\ thread[i].n <= Len(windows_)

\* the thread is inside a section that writes the sample buffer, the cursor or
\* nextSampleTime_
WritesSamples(i) == thread[i].pc \in {"sample", "window", "accumulate"}

\* the thread is inside the section that updates the history and the working
\* histogram
UpdatesWindows(i) == thread[i].pc \in {"relock_samples", "window", "accumulate"}

\* C20: concurrent callbacks are serialized: no two threads are at the same time
\* writing the sample buffer, the cursor and nextSampleTime, and no two threads are
\* at the same time inside the window update section.
C20_Serialized ==
    \A i \in Threads, j \in Threads :
        i # j => /\ ~(WritesSamples(i) /\ WritesSamples(j))
                 /\ ~(UpdatesWindows(i) /\ UpdatesWindows(j))

\* one thread is recomputing the working histogram while another one, that has
\* passed the first block, waits for the window update section
C20_Witness ==
    \E i \in Threads, j \in Threads :
        /\ MidRecompute(i)
        /\ thread[j].pc = "lock_windows"
        /\ windows_mutex_ = i
        /\ samples_mutex_ = i
        /\ currentWindow_ > 0

(***************************************************************************)
(* Properties of the ensemble of replicas.                                 *)
(***************************************************************************)
\* C21: two replicas with the same configuration, called at the same times with
\* different site positions, have made the same number of reduce calls after
\* every callback: they reduce in the same callbacks, whatever they sampled.
C21_LockStep ==
    (peer # << >> /\ pc = "idle") => peer.reduceCalls = reduceCalls

\* while no replica has stopped, the replicas have made the same reduce calls
LockStepWhileRunning ==
    (peer # << >> /\ pc = "idle" /\ status = "running" /\ peer.status = "running")
    => peer.reduceCalls = reduceCalls

(***************************************************************************)
(* Properties of the harmonic restraint.                                   *)
(***************************************************************************)
\* C22: Harmonic::calculate(v, v0) with equilibrium distance R0 and spring
\* constant k returns k * (R0 / R - 1) * (v - v0) for R = |v - v0| # 0: zero when
\* R = R0, from v toward v0 with magnitude k * (R - R0) when R > R0, away from v0
\* when R < R0; and the zero vector when v = v0.
C22_HarmonicForce ==
    (harmonic # << >> /\ calc # << >>) =>
        /\ force.hist = 0
        /\ CalcR # 0 => force.spring * CalcR = harmonic.k * (harmonic.R0 - CalcR)
                                                  * (calc[1] - calc[2])
        /\ CalcR = harmonic.R0 => force.spring = 0
        /\ CalcR > harmonic.R0 => /\ force.spring * (calc[2] - calc[1]) > 0
                                  /\ Abs(force.spring) = harmonic.k * (CalcR - harmonic.R0)
        /\ (0 < CalcR /\ CalcR < harmonic.R0) => force.spring * (calc[1] - calc[2]) > 0
        /\ calc[1] = calc[2] => force.spring = 0

\* the last call of the test: calculate(2*e1, -e1) on the spring R0 = 1, k = 1
\* returns -2*e1
C22_Witness ==
    /\ harmonic = [R0 |-> 1, k |-> 1]
    /\ calc = <<2, -1>>
    /\ force = [spring |-> -2, hist |-> 0]

(***************************************************************************)
(* Properties of the Linear restraint.                                     *)
(***************************************************************************)
\* C23: the start time of the Linear restraint is the time of its first callback:
\* it is initialized in the first callback and in no other, and afterwards no
\* callback and no calculate call changes startTime_.
C23_StartTimeFixed ==
    linear # << >> =>
        /\ linear.initialized_ = (startedAt # -1)
        /\ linear.initialized_ => linear.startTime_ = startedAt

\* a restraint first called at a time after 0, called back again later, having
\* logged samples, and on which calculate has run since
C23_Witness ==
    /\ linear # << >>
    /\ linear.initialized_
    /\ startedAt > 0
    /\ linear.startTime_ = startedAt
    /\ linear.currentSample_ > 1
    /\ linear.time_ > startedAt
    /\ t > linear.time_
    /\ calc = << >>

C25_FirstUpdateAfterStart ==
    [][WindowUpdateStep => t >= startedAt + windowUpdatePeriod_]_vars

\* the step that appends the window allocated in it to the history
AppendStep ==
    /\ windows_' # << >>
    /\ windows_'[Len(windows_')].id = currentWindow_
    /\ windows_ = << >> \/ windows_[Len(windows_)].id < currentWindow_

\* C26: currentWindow_ counts the window updates made: it equals the number of
\* reduce calls and the number of histograms ever appended to the history; one
\* callback makes at most one update, even when its time is more than one
\* windowUpdatePeriod past the scheduled time, and returns after it.
C26_OneUpdatePerCallback ==
    /\ [](currentWindow_ = reduceCalls)
    /\ [][/\ currentWindow_' \in {currentWindow_, currentWindow_ + 1}
          /\ WindowUpdateStep <=> AppendStep
          /\ WindowUpdateStep => pc' = "idle"]_vars

\* a callback that has returned after its one update with the next update overdue
\* already: it was called more than one period after the scheduled time
C26_Witness ==
    /\ status = "running"
    /\ pc = "idle"
    /\ windowUpdatePeriod_ >= 1
    /\ updatedAt = t
    /\ t > nextWindowUpdateTime_
    /\ currentWindow_ = 2
    /\ reduceCalls = 2
    /\ Len(windows_) = 2

\* C28: a window update never evicts from an empty history, whatever nWindows the
\* constructor accepted (0 included): when the history counts as full it holds a
\* window to evict.
C28_EvictsFromNonEmpty ==
    (status = "running" /\ pc = "window" /\ WindowDue(t) /\ HistoryFull)
    => windows_ # << >>

C29_StopsOnce ==
    /\ [](brer # << >> => brer.stops <= 1)
    /\ [][brer # << >> =>
            /\ brer'.stops # brer.stops
               => /\ brer'.stops = brer.stops + 1
                  /\ ~brer.converged_ /\ brer'.converged_
                  /\ brer'.windowStartTime_ = t'
                  /\ WithinTolerance(brer')
            /\ (~brer.converged_ /\ brer'.converged_) => brer'.stops = brer.stops + 1]_vars

\* a run that converged at its second update, signalled once, and has been called
\* back since
C29_Witness ==
    /\ brer # << >>
    /\ brer.converged_
    /\ brer.stops = 1
    /\ brer.gsqrsum_ = 2
    /\ brer.alpha_.x # brer.alpha_prev_.x
    /\ t > brer.windowStartTime_

\* C30: once BRER has converged every further callback is a no-op: no member of
\* the restraint changes (alpha_, alpha_prev_, alpha_max_, mean_, variance_, g_,
\* gsqrsum_, eta_, the sample counter, the scheduled times) and converged_ never
\* returns to false.
C30_ConvergedIsFinal ==
    [][(brer # << >> /\ brer.converged_) => brer' = brer]_vars

\* a converged restraint called back at a time when its next update was due, which
\* has not been made
C30_Witness ==
    /\ brer # << >>
    /\ brer.initialized_
    /\ brer.converged_
    /\ brer.stops = 1
    /\ t >= brer.nextUpdateTime_
    /\ brer.windowStartTime_ < brer.nextUpdateTime_

\* the callback of this step finds an update due
BRERUpdateDue == brer.initialized_ /\ t' >= brer.nextUpdateTime_

\* the time of this step's callback is a whole number of tau_ after the first one
BREROnSchedule == t' > startedAt /\ (t' - startedAt) % brer.tau_ = 0

C32_NoDivisionByZero ==
    (brer # << >> /\ brer.initialized_ /\ brer.windowStartTime_ > startedAt)
    => /\ brer.gsqrsum_ > 0
       /\ brer.eta_.kind = "finite"

C33_StopsOnce ==
    /\ [](linearstop # << >> =>
            /\ linearstop.stops <= 1
            /\ linearstop.stop_called_ = (linearstop.stops = 1))
    /\ [][(linearstop # << >> /\ ~CalculateStep) =>
            /\ linearstop'.stop_called_
                  = (linearstop.stop_called_ \/ InBand(linearstop', linearstop'.R))
            /\ linearstop'.stops # linearstop.stops
                  <=> (~linearstop.stop_called_ /\ InBand(linearstop', linearstop'.R))]_vars
    /\ [][(linearstop # << >> /\ CalculateStep) =>
            /\ linearstop'.stops = linearstop.stops
            /\ linearstop'.stop_called_ = linearstop.stop_called_]_vars

\* the restraint signalled in its first callback, logged a sample in a callback
\* outside the band, and has the distance of its latest callback back in the band:
\* still one call of stop
C33_Witness ==
    /\ linearstop # << >>
    /\ linearstop.stop_called_
    /\ linearstop.stops = 1
    /\ linearstop.currentSample_ >= 1
    /\ linearstop.stoppedAt = startedAt
    /\ InBand(linearstop, linearstop.R)
    /\ calc = << >>
    /\ t > linearstop.stoppedAt + 1

(***************************************************************************)
(* Properties of the restraint builders.                                   *)
(***************************************************************************)
\* a call of build: the builder changes and its subscriber is the same
BuildStep == builder'.subscriber_ = builder.subscriber_ /\ status' = status

\* the step appends one new potential to the list of the builder's subscriber and
\* changes no other list
AppendsOne ==
    /\ builder.subscriber_ # 0
    /\ Len(builder'.potential[builder.subscriber_])
           = Len(builder.potential[builder.subscriber_]) + 1
    /\ SubSeq(builder'.potential[builder.subscriber_], 1,
              Len(builder.potential[builder.subscriber_]))
           = builder.potential[builder.subscriber_]
    /\ \A sub \in Subscribers :
          /\ sub # builder.subscriber_ => builder'.potential[sub] = builder.potential[sub]
          /\ \A k \in 1 .. Len(builder.potential[sub]) :
                builder.potential[sub][k]
                    # builder'.potential[builder.subscriber_]
                                       [Len(builder'.potential[builder.subscriber_])]

\* C35: build() either appends exactly one new potential to the 'potential' list
\* of the subscriber or changes no list: without a subscriber it returns and
\* creates no potential; with a subscriber that has no 'potential' attribute, or a
\* context that has no 'ensemble_update', it raises ProtocolError and leaves the
\* subscriber's list as it was.
C35_BuildAppendsOneOrNothing ==
    [][(builder # << >> /\ BuildStep) =>
          /\ AppendsOne \/ builder'.potential = builder.potential
          /\ builder.subscriber_ = 0
                => /\ builder'.result = "returned"
                   /\ builder'.created = builder.created
                   /\ builder'.potential = builder.potential
          /\ (/\ builder.subscriber_ # 0
              /\ PotentialAttr(builder.subscriber_) = "absent" \/ ~builder.context_)
                => /\ builder'.result = "ProtocolError"
                   /\ builder'.created = builder.created
                   /\ builder'.potential = builder.potential]_vars

\* a build that raised ProtocolError on a subscriber without the attribute, after
\* builds that attached two potentials to another subscriber, whose list is as
\* those builds left it
C35_Witness ==
    /\ builder # << >>
    /\ builder.result = "ProtocolError"
    /\ builder.subscriber_ = 2
    /\ builder.created = 2
    /\ Len(builder.potential[1]) = 2

====
